---- MODULE Spec2Model ----
(***************************************************************************)
(* Model of the preprocessing library (src/src/preprocessing.py) and of    *)
(* the way its callers (src/src/cli.py, src/tests) invoke it.              *)
(*                                                                         *)
(* Every library function is a call that takes the caller's argument       *)
(* object, may raise, may write the process-wide random generator, and     *)
(* returns a value.  The state records the generator, the caller's object  *)
(* and the last call made on it (its name, the argument as it received it, *)
(* its second parameter, its outcome) and one earlier shuffle call whose   *)
(* outcome the caller kept to compare.                                     *)
(***************************************************************************)
EXTENDS Integers, Sequences, FiniteSets, TLC

VARIABLES
    rng,        \* state of the process-wide generator of module random
    kind,       \* what the caller's object is: "list" or "text"
    input,      \* the caller's object (a value sequence or a text), as it is now
    arg,        \* that object as it was when the last call received it
    op,         \* name of the last call
    param,      \* second parameter of the call (seed, fill_val, stopwords)
    result,     \* outcome of the call: a returned value or a raised error
    kept        \* an earlier shuffle_list call whose outcome the caller kept

vars == <<rng, kind, input, arg, op, param, result, kept>>

-----------------------------------------------------------------------------
(* Bounds *)

MaxLen == 3        \* longest value sequence passed to a function
MaxShuffleLen == 4 \* longest list passed to shuffle_list
MaxTextLen == 4    \* longest text passed to a text function
MaxSeed == 1       \* explicit seeds range over -MaxSeed..MaxSeed and 42
RngBits == 2       \* the generator has 2^RngBits states

-----------------------------------------------------------------------------
(* Python values.  A value is a record [t, n, s]: t the type tag, n the    *)
(* number it carries, s the characters of a string.                        *)
(*   "none"    None                                                        *)
(*   "int"     the integer n                                               *)
(*   "bigint"  an integer beyond the range of a double, of sign n          *)
(*   "float"   the finite float n/2                                        *)
(*   "nan"     a float("nan") object; n tells the objects apart            *)
(*   "inf"     float("inf") (n = 1) or float("-inf") (n = -1)              *)
(*   "float4"  the finite float n/10000 (results of math.log)              *)
(*   "str"     the string whose characters are s                           *)

Val(t, n, s) == [t |-> t, n |-> n, s |-> s]

None == Val("none", 0, <<>>)
IntV(n) == Val("int", n, <<>>)
BigIntV(sign) == Val("bigint", sign, <<>>)
FloatV(halves) == Val("float", halves, <<>>)
NaN == Val("nan", 0, <<>>)
NaNObject(id) == Val("nan", id, <<>>)
InfV(sign) == Val("inf", sign, <<>>)
Float4V(n) == Val("float4", n, <<>>)
StrV(s) == Val("str", 0, s)

(* Outcomes of a call. *)
Return(v) == [ok |-> TRUE, exc |-> "", out |-> v]
Raise(e) == [ok |-> FALSE, exc |-> e, out |-> <<>>]

SeqsUpTo(S, n) == UNION {[1..k -> S] : k \in 0..n}

Abs(n) == IF n < 0 THEN -n ELSE n

-----------------------------------------------------------------------------
(* The generator of module random, abstracted to a linear congruential     *)
(* generator on 2^RngBits states.                                          *)

RngMod == 2 ^ RngBits
RngStates == 0..(RngMod - 1)

(* random.seed(a) for an int a: the state is a function of abs(a). *)
SeedState(a) == (Abs(a) * 3 + 1) % RngMod

(* One step of the generator. *)
NextState(s) == (5 * s + 3) % RngMod

(* random._randbelow(n): a draw below n and the state after it. *)
RandBelow(s, n) == [j |-> (NextState(s) \div 2) % n, s |-> NextState(s)]

Swap(x, i, j) == [x EXCEPT ![i] = x[j], ![j] = x[i]]

(* random.shuffle(x): for i in reversed(range(1, len(x))):                 *)
(*     j = randbelow(i + 1); x[i], x[j] = x[j], x[i]                       *)
(* Indices are 1-based here: position i of the model is index i-1.         *)
RECURSIVE ShuffleFrom(_, _, _)
ShuffleFrom(x, s, i) ==
    IF i < 2 THEN [x |-> x, s |-> s]
    ELSE LET d == RandBelow(s, i)
         IN  ShuffleFrom(Swap(x, i, d.j + 1), d.s, i - 1)

RandomShuffle(x, s) == ShuffleFrom(x, s, Len(x))

-----------------------------------------------------------------------------
(* shuffle_list(values, seed=42) *)

DefaultSeed == 42

SeedOmitted == [k |-> "omitted", n |-> 0]
SeedNone == [k |-> "none", n |-> 0]
SeedInt(n) == [k |-> "int", n |-> n]

Seeds == (-MaxSeed..MaxSeed) \cup {DefaultSeed}
SeedArgs == {SeedOmitted, SeedNone} \cup {SeedInt(n) : n \in Seeds}

(* The lists shuffled: for every length k up to MaxShuffleLen and every    *)
(* number m of distinct elements, the list 1, 2, .., m, 1, 2, ..           *)
CycleList(k, m) == [i \in 1..k |-> IntV(((i - 1) % m) + 1)]
ShuffleInputs ==
    {CycleList(k, m) : k \in 0..MaxShuffleLen, m \in 1..MaxShuffleLen}

(* The value bound to the parameter seed: the default when it is omitted. *)
SeedUsedMutantNone(seedArg) == IF seedArg.k = "omitted" THEN SeedNone ELSE seedArg
SeedUsed(seedArg) == IF seedArg.k = "omitted" THEN SeedInt(DefaultSeed) ELSE seedArg

(* random.seed(seed): the states the generator can be in afterwards.  An   *)
(* int fixes the state; None seeds from the operating system's entropy.    *)
SeededStates(seed) ==
    IF seed.k = "none" THEN RngStates ELSE {SeedState(seed.n)}

(* The state random.shuffle starts from in shuffle_list. *)
ShuffleStartMutantNoReseed(cur, seeded) == cur
ShuffleStart(cur, seeded) == seeded

(* The caller's object after the call: shuffle_list permutes a copy. *)
InputAfterShuffleMutantInPlace(values, shuffled) == shuffled
InputAfterShuffle(values, shuffled) == values

ShuffleList ==
    /\ kind = "list"
    /\ \E seedArg \in SeedArgs :
         \E seeded \in SeededStates(SeedUsed(seedArg)) :
           LET done == RandomShuffle(input, ShuffleStart(rng, seeded))
           IN  /\ op' = "shuffle_list"
               /\ arg' = input
               /\ param' = [given |-> seedArg, used |-> SeedUsed(seedArg)]
               /\ input' = InputAfterShuffle(input, done.x)
               /\ result' = Return(done.x)
               /\ rng' = done.s
               /\ UNCHANGED <<kind, kept>>

(* The caller's own use of the generator between library calls, as in     *)
(* test_shuffle_list: random.seed(...), random.shuffle(...).               *)
CallerRandom ==
    /\ \E s \in RngStates : rng' = s
    /\ op' = "caller_random"
    /\ arg' = input
    /\ param' = <<>>
    /\ result' = Return(<<>>)
    /\ UNCHANGED <<kind, input, kept>>

(* The caller keeps the outcome of the shuffle_list call just made, to    *)
(* compare a later call with it (out = preprocessing.shuffle_list(...)).   *)
NoCall == [values |-> <<>>, seed |-> SeedOmitted, out |-> <<>>, made |-> FALSE]

KeepOutcome ==
    /\ op = "shuffle_list"
    /\ kept' = [values |-> arg, seed |-> param.given, out |-> result.out,
                made |-> TRUE]
    /\ UNCHANGED <<rng, kind, input, arg, op, param, result>>

(* The caller turns to another list; no call has been made on it yet. *)
NewList ==
    /\ \E values \in ShuffleInputs :
         /\ input' = values
         /\ arg' = values
    /\ op' = "none"
    /\ param' = <<>>
    /\ result' = Return(<<>>)
    /\ UNCHANGED <<rng, kind, kept>>

-----------------------------------------------------------------------------
NoCallYet ==
    /\ rng \in RngStates
    /\ arg = input
    /\ op = "none"
    /\ param = <<>>
    /\ result = Return(<<>>)
    /\ kept = NoCall

InitShuffle ==
    /\ kind = "list"
    /\ input \in ShuffleInputs
    /\ NoCallYet

NextShuffle == ShuffleList \/ CallerRandom \/ KeepOutcome \/ NewList

SpecShuffle == InitShuffle /\ [][NextShuffle]_vars

-----------------------------------------------------------------------------
(* Value sequences passed to the missing-value and numeric functions. *)

Digits == <<"0", "1", "2", "3", "4", "5", "6", "7", "8", "9">>
IsDigit(c) == \E d \in DOMAIN Digits : Digits[d] = c
DigitValue(c) == (CHOOSE d \in DOMAIN Digits : Digits[d] = c) - 1

DataValues ==
    { None, StrV(<<>>), NaN,
      IntV(0), IntV(-1), IntV(10),
      FloatV(-5), InfV(1), BigIntV(1),
      StrV(<<"-", "3">>), StrV(<<"2", ".", "5">>), StrV(<<"x">>) }

DataInputs == SeqsUpTo(DataValues, MaxLen)

(* The missing markers: None, the empty string, a not-a-number float. *)
IsMissingMarker(v) == v = None \/ v = StrV(<<>>) \/ v.t = "nan"

IsNumber(v) == v.t \in {"int", "bigint", "float", "nan", "inf"}

(* isinstance(value, float) *)
IsFloat(v) == v.t \in {"float", "nan", "inf", "float4"}

(* A call of a builtin on one element: it returns out or raises exc. *)
Ok(v) == [ok |-> TRUE, exc |-> "", out |-> v]
Err(e) == [ok |-> FALSE, exc |-> e, out |-> None]

-----------------------------------------------------------------------------
(* remove_missing_values(values) *)

(* The three tests of the loop body; an element that passes none is kept. *)
SkippedByRemoveMutantFalsy(value) ==
    \/ value = None
    \/ value = StrV(<<>>)
    \/ value.t = "int" /\ value.n = 0
    \/ IsFloat(value) /\ value.t = "nan"
SkippedByRemove(value) ==
    \/ value = None
    \/ value.t = "str" /\ value.s = <<>>
    \/ IsFloat(value) /\ value.t = "nan"

RECURSIVE RemoveLoop(_, _, _)
RemoveLoop(values, i, output) ==
    IF i > Len(values) THEN Return(output)
    ELSE IF SkippedByRemove(values[i])
         THEN RemoveLoop(values, i + 1, output)
         ELSE RemoveLoop(values, i + 1, Append(output, values[i]))

RemoveMissingValues(values) == RemoveLoop(values, 1, <<>>)

-----------------------------------------------------------------------------
(* fill_missing_values(values, fill_val=0) *)

(* math.isnan(value): a float is tested, an int is converted to a float    *)
(* first (an int beyond the range of a double cannot be), anything else is *)
(* a type error.                                                           *)
MathIsNan(value) ==
    CASE value.t = "nan" -> Ok(TRUE)
      [] value.t \in {"float", "inf", "float4", "int"} -> Ok(FALSE)
      [] value.t = "bigint" -> Err("OverflowError")
      [] OTHER -> Err("TypeError")

(* One pass of the loop body: the element to append, or the error that    *)
(* leaves the function.  Only TypeError is caught.                         *)
FillOne(value, fill_val) ==
    LET nan == MathIsNan(value)
    IN  IF nan.ok /\ nan.out THEN Ok(fill_val)
        ELSE IF ~nan.ok /\ nan.exc # "TypeError" THEN Err(nan.exc)
        ELSE IF value = None \/ (value.t = "str" /\ value.s = <<>>)
             THEN Ok(fill_val)
        ELSE Ok(value)

RECURSIVE FillLoop(_, _, _, _)
FillLoop(values, fill_val, i, output) ==
    IF i > Len(values) THEN Return(output)
    ELSE LET one == FillOne(values[i], fill_val)
         IN  IF one.ok
             THEN FillLoop(values, fill_val, i + 1, Append(output, one.out))
             ELSE Raise(one.exc)

FillMissingValues(values, fill_val) == FillLoop(values, fill_val, 1, <<>>)

DefaultFill == 0
FillValues == {IntV(DefaultFill), IntV(99), StrV(<<"x">>)}

-----------------------------------------------------------------------------
(* convert_to_int(values) *)

(* str.strip() of the characters int() ignores around a literal. *)
RECURSIVE LStrip(_)
LStrip(s) == IF s # <<>> /\ Head(s) = " " THEN LStrip(Tail(s)) ELSE s
RECURSIVE RStrip(_)
RStrip(s) ==
    IF s # <<>> /\ s[Len(s)] = " " THEN RStrip(SubSeq(s, 1, Len(s) - 1)) ELSE s
Strip(s) == RStrip(LStrip(s))

(* The digits of a base-10 literal: digits, with single underscores        *)
(* allowed between digits.                                                 *)
IsDigitString(d) ==
    /\ d # <<>>
    /\ \A i \in DOMAIN d : IsDigit(d[i]) \/ d[i] = "_"
    /\ d[1] # "_" /\ d[Len(d)] # "_"
    /\ \A i \in 1..(Len(d) - 1) : ~(d[i] = "_" /\ d[i + 1] = "_")

RECURSIVE DigitsValue(_, _)
DigitsValue(d, acc) ==
    IF d = <<>> THEN acc
    ELSE IF Head(d) = "_" THEN DigitsValue(Tail(d), acc)
    ELSE DigitsValue(Tail(d), 10 * acc + DigitValue(Head(d)))

(* int(s) for a string s: optional blanks, an optional sign, the digits. *)
ParseInt(s) ==
    LET t == Strip(s)
        signed == t # <<>> /\ Head(t) \in {"+", "-"}
        body == IF signed THEN Tail(t) ELSE t
        sign == IF signed /\ Head(t) = "-" THEN -1 ELSE 1
    IN  IF IsDigitString(body)
        THEN Ok(IntV(sign * DigitsValue(body, 0)))
        ELSE Err("ValueError")

(* int(x) for a finite float of n halves: truncation toward zero. *)
TruncHalves(n) == IF n < 0 THEN -((-n) \div 2) ELSE n \div 2

(* int(value) *)
PyInt(value) ==
    CASE value.t \in {"int", "bigint"} -> Ok(value)
      [] value.t = "float" -> Ok(IntV(TruncHalves(value.n)))
      [] value.t = "float4" -> Ok(IntV(IF value.n < 0 THEN -((-value.n) \div 10000)
                                        ELSE value.n \div 10000))
      [] value.t = "nan" -> Err("ValueError")
      [] value.t = "inf" -> Err("OverflowError")
      [] value.t = "str" -> ParseInt(value.s)
      [] OTHER -> Err("TypeError")

(* The loop: a ValueError skips the element, any other error leaves the   *)
(* function.                                                               *)
RECURSIVE ConvertLoop(_, _, _)
ConvertLoop(values, i, output) ==
    IF i > Len(values) THEN Return(output)
    ELSE LET int_value == PyInt(values[i])
         IN  IF int_value.ok
             THEN ConvertLoop(values, i + 1, Append(output, int_value.out))
             ELSE IF int_value.exc = "ValueError"
                  THEN ConvertLoop(values, i + 1, output)
                  ELSE Raise(int_value.exc)

ConvertToInt(values) == ConvertLoop(values, 1, <<>>)

-----------------------------------------------------------------------------
(* log_transform(values) *)

(* value > 0: a number is compared, anything else is a type error. *)
GreaterThanZero(value) ==
    CASE value.t \in {"int", "float", "float4", "inf", "bigint"} -> Ok(value.n > 0)
      [] value.t = "nan" -> Ok(FALSE)
      [] OTHER -> Err("TypeError")

(* math.log(value) for value > 0, to four decimals. *)
MathLog(value) ==
    CASE value.t = "inf" -> InfV(1)
      [] value.t = "bigint" -> Float4V(7114988)
      [] value = IntV(1) -> Float4V(0)
      [] value = IntV(2) -> Float4V(6931)
      [] value = IntV(3) -> Float4V(10986)
      [] value = IntV(4) -> Float4V(13863)
      [] value = IntV(5) -> Float4V(16094)
      [] value = IntV(10) -> Float4V(23026)
      [] value = FloatV(1) -> Float4V(-6931)
      [] value = FloatV(2) -> Float4V(0)
      [] value = FloatV(5) -> Float4V(9163)

(* The loop body for an element that compares: the output after it. *)
LogStepMutantKeep(output, value, positive) ==
    IF positive THEN Append(output, MathLog(value)) ELSE Append(output, value)
LogStep(output, value, positive) ==
    IF positive THEN Append(output, MathLog(value)) ELSE output

RECURSIVE LogLoop(_, _, _)
LogLoop(values, i, output) ==
    IF i > Len(values) THEN Return(output)
    ELSE LET positive == GreaterThanZero(values[i])
         IN  IF ~positive.ok THEN Raise(positive.exc)
             ELSE LogLoop(values, i + 1, LogStep(output, values[i], positive.out))

LogTransform(values) == LogLoop(values, 1, <<>>)

-----------------------------------------------------------------------------
(* The calls of the missing-value and numeric functions.  None of them     *)
(* writes the caller's list or the generator.                              *)

Call(name, second, outcome) ==
    /\ op' = name
    /\ arg' = input
    /\ param' = second
    /\ result' = outcome
    /\ UNCHANGED <<rng, kind, input, kept>>

CallRemoveMissingValues ==
    /\ kind = "list"
    /\ Call("remove_missing_values", <<>>, RemoveMissingValues(input))

CallFillMissingValues ==
    /\ kind = "list"
    /\ \E fill_val \in FillValues :
         Call("fill_missing_values", fill_val, FillMissingValues(input, fill_val))

CallConvertToInt ==
    /\ kind = "list"
    /\ Call("convert_to_int", <<>>, ConvertToInt(input))

CallLogTransform ==
    /\ kind = "list"
    /\ Call("log_transform", <<>>, LogTransform(input))

InitValues ==
    /\ kind = "list"
    /\ input \in DataInputs
    /\ NoCallYet

NextValues ==
    \/ CallRemoveMissingValues
    \/ CallFillMissingValues
    \/ CallConvertToInt
    \/ CallLogTransform

SpecValues == InitValues /\ [][NextValues]_vars

-----------------------------------------------------------------------------
(* unique_values(values) *)

(* Lists with equal values of different types (1 and 1.0), and with        *)
(* not-a-number floats: the same object twice, or two objects.             *)
UniqueElems ==
    { IntV(1), FloatV(2), IntV(0), None, StrV(<<"1">>), NaN, NaNObject(1) }
UniqueInputs == SeqsUpTo(UniqueElems, MaxLen)

(* a is b: the same object.  Of the values here only not-a-number floats   *)
(* are told apart as objects; for the others an equal value is as good.    *)
PyIs(a, b) == a = b

(* A finite number in units of 1/20000. *)
IsFinite(v) == v.t \in {"int", "float", "float4"}
Scaled(v) ==
    CASE v.t = "int" -> 20000 * v.n
      [] v.t = "float" -> 10000 * v.n
      [] v.t = "float4" -> 2 * v.n

(* a == b: numbers compare by value across int and float, not-a-number     *)
(* equals nothing (itself included), other values compare within a type.   *)
PyEquals(a, b) ==
    IF a.t = "nan" \/ b.t = "nan" THEN FALSE
    ELSE IF IsFinite(a) /\ IsFinite(b) THEN Scaled(a) = Scaled(b)
    ELSE a.t = b.t /\ a.n = b.n /\ a.s = b.s

(* value in output: some element is the same object or is equal. *)
ContainsMutantEqualsOnly(output, value) ==
    \E k \in DOMAIN output : PyEquals(output[k], value)
Contains(output, value) ==
    \E k \in DOMAIN output : PyIs(output[k], value) \/ PyEquals(output[k], value)

RECURSIVE UniqueLoop(_, _, _)
UniqueLoop(values, i, output) ==
    IF i > Len(values) THEN Return(output)
    ELSE IF ~Contains(output, values[i])
         THEN UniqueLoop(values, i + 1, Append(output, values[i]))
         ELSE UniqueLoop(values, i + 1, output)

UniqueValues(values) == UniqueLoop(values, 1, <<>>)

CallUniqueValues ==
    /\ kind = "list"
    /\ Call("unique_values", <<>>, UniqueValues(input))

InitUnique ==
    /\ kind = "list"
    /\ input \in UniqueInputs
    /\ NoCallYet

NextUnique == CallUniqueValues

SpecUnique == InitUnique /\ [][NextUnique]_vars

-----------------------------------------------------------------------------
(* Texts.  A text is the sequence of its characters. *)

Chars == {"a", "B", "1", " ", ",", "_", "é"}
Texts == SeqsUpTo(Chars, MaxTextLen)

(* str.lower(), character by character. *)
LowerChar(c) == IF c = "B" THEN "b" ELSE c
Lower(text) == [i \in DOMAIN text |-> LowerChar(text[i])]

(* The class [a-z0-9] of the pattern. *)
IsAsciiAlnum(c) == c \in {"a", "b", "1"}

(* The class \w of a str pattern: Unicode letters and digits, and the      *)
(* underscore.                                                             *)
IsWordChar(c) == IsAsciiAlnum(c) \/ c = "_" \/ c = "é"

(* \b before the character at position i (Len + 1: the end of the text):   *)
(* exactly one of the characters on its two sides is a word character.     *)
WordAt(text, i) == i >= 1 /\ i <= Len(text) /\ IsWordChar(text[i])
Boundary(text, i) == WordAt(text, i - 1) # WordAt(text, i)

(* The end of the longest run of [a-z0-9] that starts at position i. *)
RECURSIVE RunEnd(_, _)
RunEnd(text, i) ==
    IF i <= Len(text) /\ IsAsciiAlnum(text[i]) THEN RunEnd(text, i + 1) ELSE i

(* The position after the match of \b[a-z0-9]+\b at i, or 0 when there is  *)
(* none.  The run is taken greedily; a shorter run ends between two word   *)
(* characters, where there is no boundary, so backtracking finds nothing.  *)
MatchEnd(text, i) ==
    LET j == RunEnd(text, i)
    IN  IF j > i /\ Boundary(text, i) /\ Boundary(text, j) THEN j ELSE 0

(* re.findall: the matches from left to right, none overlapping. *)
RECURSIVE FindAll(_, _)
FindAll(text, i) ==
    IF i > Len(text) THEN <<>>
    ELSE LET j == MatchEnd(text, i)
         IN  IF j = 0 THEN FindAll(text, i + 1)
             ELSE <<SubSeq(text, i, j - 1)>> \o FindAll(text, j)

(* tokenize_text(text) *)
TokenizeText(text) == FindAll(Lower(text), 1)

-----------------------------------------------------------------------------
(* stopwords_removal(text, stopwords) *)

StopwordLists ==
    { <<>>,
      << <<"a">> >>,
      << <<"B">> >>,
      << <<"b">>, <<"1">> >>,
      << <<"a", "b">>, <<"a">> >> }

(* word not in stopwords, for a list of stop words. *)
InListMutantLower(word, list) == \E k \in DOMAIN list : Lower(list[k]) = word
InList(word, list) == \E k \in DOMAIN list : list[k] = word

RECURSIVE Filtered(_, _)
Filtered(tokens, stopwords) ==
    IF tokens = <<>> THEN <<>>
    ELSE IF InList(Head(tokens), stopwords)
         THEN Filtered(Tail(tokens), stopwords)
         ELSE <<Head(tokens)>> \o Filtered(Tail(tokens), stopwords)

(* " ".join(words) *)
RECURSIVE Join(_)
Join(words) ==
    IF words = <<>> THEN <<>>
    ELSE IF Len(words) = 1 THEN Head(words)
    ELSE Head(words) \o <<" ">> \o Join(Tail(words))

StopwordsRemoval(text, stopwords) == Join(Filtered(TokenizeText(text), stopwords))

-----------------------------------------------------------------------------
(* The calls of the text functions. *)

CallTokenizeText ==
    /\ kind = "text"
    /\ Call("tokenize_text", <<>>, Return(TokenizeText(input)))

CallStopwordsRemoval ==
    /\ kind = "text"
    /\ \E stopwords \in StopwordLists :
         Call("stopwords_removal", stopwords,
              Return(StopwordsRemoval(input, stopwords)))

InitText ==
    /\ kind = "text"
    /\ input \in Texts
    /\ NoCallYet

NextText == CallTokenizeText \/ CallStopwordsRemoval

SpecText == InitText /\ [][NextText]_vars

-----------------------------------------------------------------------------
(* Every call, on every object. *)

Init == InitShuffle \/ InitValues \/ InitUnique \/ InitText

LibraryOps ==
    { "remove_missing_values", "fill_missing_values", "convert_to_int",
      "log_transform", "unique_values", "tokenize_text", "stopwords_removal",
      "shuffle_list" }

Next ==
    \/ CallRemoveMissingValues
    \/ CallFillMissingValues
    \/ CallConvertToInt
    \/ CallLogTransform
    \/ CallUniqueValues
    \/ CallTokenizeText
    \/ CallStopwordsRemoval
    \/ ShuffleList
    \/ CallerRandom

Spec == Init /\ [][Next]_vars

-----------------------------------------------------------------------------
(* Properties of the missing-value and numeric functions *)

NotMissingMarker(v) == ~IsMissingMarker(v)
Positions(x) == DOMAIN x

(* C3 (as stated): convert_to_int returns without raising, and returns, in *)
(* input order, the integer conversion of exactly the elements that         *)
(* convert; the others are dropped.                                         *)
Converts(v) == PyInt(v).ok
RECURSIVE Converted(_)
Converted(x) ==
    IF x = <<>> THEN <<>>
    ELSE IF Converts(Head(x)) THEN <<PyInt(Head(x)).out>> \o Converted(Tail(x))
    ELSE Converted(Tail(x))

C3_ConvertNeverRaises ==
    op = "convert_to_int" =>
        /\ result.ok
        /\ result.out = Converted(arg)

(* C4 (as stated): log_transform does not raise on any element, and        *)
(* returns, in input order, the logarithms of exactly the strictly positive *)
(* numbers; every other element is dropped.                                 *)
IsPositiveNumber(v) ==
    \/ v.t \in {"int", "bigint", "float", "float4"} /\ v.n > 0
    \/ v = InfV(1)
RECURSIVE LogsOfPositive(_)
LogsOfPositive(x) ==
    IF x = <<>> THEN <<>>
    ELSE IF IsPositiveNumber(Head(x))
         THEN <<MathLog(Head(x))>> \o LogsOfPositive(Tail(x))
         ELSE LogsOfPositive(Tail(x))

C4_LogNeverRaises ==
    op = "log_transform" =>
        /\ result.ok
        /\ result.out = LogsOfPositive(arg)

(* C4 (amended): on a sequence of numbers (ints and floats, not-a-number    *)
(* included) log_transform does not raise and returns, in input order, the  *)
(* logarithms of exactly the strictly positive elements, the others being   *)
(* dropped; on a sequence that holds a string or None it raises TypeError.  *)
C4_LogOfNumbers ==
    op = "log_transform" =>
        IF \A i \in Positions(arg) : IsNumber(arg[i])
        THEN /\ result.ok
             /\ result.out = LogsOfPositive(arg)
             /\ input = arg
        ELSE result = Raise("TypeError")

(* A sequence of numbers with a positive one after a non-positive one. *)
C4_Witness ==
    /\ op = "log_transform"
    /\ result.ok
    /\ Len(arg) >= 2
    /\ ~IsPositiveNumber(arg[1])
    /\ IsPositiveNumber(arg[2])
    /\ Len(result.out) < Len(arg)

(* C6: remove_missing_values returns exactly the subsequence of the        *)
(* elements that are not a missing marker (None, empty string, NaN), in     *)
(* their order; nothing else is dropped (0 is kept).                        *)
C6_RemoveExactlyMissing ==
    op = "remove_missing_values" =>
        /\ result.ok
        /\ result.out = SelectSeq(arg, NotMissingMarker)
        /\ \A i \in Positions(result.out) : ~IsMissingMarker(result.out[i])
        /\ input = arg

(* A sequence with a missing marker between two survivors, one of them 0. *)
C6_Witness ==
    /\ op = "remove_missing_values"
    /\ Len(arg) = 3
    /\ IsMissingMarker(arg[2])
    /\ arg[3] = IntV(0)
    /\ result.out = <<arg[1], arg[3]>>

(* C7 (as stated): fill_missing_values returns without raising a sequence  *)
(* of the length of its argument, holding the fill value where the argument *)
(* holds a missing marker and the argument's element elsewhere; it fills    *)
(* exactly the positions remove_missing_values drops.                       *)
FillProbe == StrV(<<"f", "i", "l", "l">>)

C7_FillNeverRaises ==
    op = "fill_missing_values" =>
        /\ result.ok
        /\ Len(result.out) = Len(arg)
        /\ \A i \in Positions(arg) :
              result.out[i] = IF IsMissingMarker(arg[i]) THEN param ELSE arg[i]
        /\ \A i \in Positions(arg) :
              SkippedByRemove(arg[i]) <=> FillOne(arg[i], FillProbe) = Ok(FillProbe)

-----------------------------------------------------------------------------
(* Properties of the text functions *)

(* The maximal runs of ASCII letters and digits of a text, left to right:  *)
(* every other character separates.                                        *)
RECURSIVE MaximalRuns(_, _)
MaximalRuns(text, i) ==
    IF i > Len(text) THEN <<>>
    ELSE IF ~IsAsciiAlnum(text[i]) THEN MaximalRuns(text, i + 1)
    ELSE <<SubSeq(text, i, RunEnd(text, i) - 1)>>
             \o MaximalRuns(text, RunEnd(text, i))

(* C5 (as stated): tokenize_text returns exactly the maximal runs of ASCII *)
(* letters and digits of the lower-cased text; no run is lost.              *)
C5_TokensAreMaximalRuns ==
    op = "tokenize_text" =>
        /\ result.ok
        /\ result.out = MaximalRuns(Lower(arg), 1)

(* str.split(" "): the pieces between single spaces. *)
RECURSIVE SplitOnSpace(_, _)
SplitOnSpace(text, piece) ==
    IF text = <<>> THEN <<piece>>
    ELSE IF Head(text) = " " THEN <<piece>> \o SplitOnSpace(Tail(text), <<>>)
    ELSE SplitOnSpace(Tail(text), Append(piece, Head(text)))

StopwordSet(list) == {list[k] : k \in DOMAIN list}

(* The tokens of a text that are in no stop word list entry, in order. *)
Survivors(text, list) ==
    LET tokens == TokenizeText(text)
        Survives(w) == w \notin StopwordSet(list)
    IN  SelectSeq(tokens, Survives)

-----------------------------------------------------------------------------
(* Properties of unique_values *)

(* The elements of x at the positions in keep, in order. *)
RECURSIVE ElementsAt(_, _, _)
ElementsAt(x, keep, i) ==
    IF i > Len(x) THEN <<>>
    ELSE IF i \in keep THEN <<x[i]>> \o ElementsAt(x, keep, i + 1)
    ELSE ElementsAt(x, keep, i + 1)

(* The same object, or an equal value: what the test "in" accepts. *)
SameOrEqual(a, b) == PyIs(a, b) \/ PyEquals(a, b)

(* The positions of x whose element no earlier element equals, and those   *)
(* whose element no earlier element is the same object as or equals.       *)
FirstByEquality(x) ==
    {i \in DOMAIN x : ~\E j \in 1..(i - 1) : PyEquals(x[j], x[i])}
FirstByMembership(x) ==
    {i \in DOMAIN x : ~\E j \in 1..(i - 1) : SameOrEqual(x[j], x[i])}

(* C11 (as stated): unique_values returns each distinct value of its       *)
(* argument exactly once, in the order of first occurrence, two elements    *)
(* being the same value when they are equal by value (not by identity);     *)
(* applied to its own result it returns the same list.                      *)
C11_UniqueByValueEquality ==
    op = "unique_values" =>
        /\ result.ok
        /\ result.out = ElementsAt(arg, FirstByEquality(arg), 1)
        /\ UniqueValues(result.out) = result

(* C11 (amended): unique_values returns, in the order of first occurrence, *)
(* the elements of its argument that are neither the same object as nor     *)
(* equal to an earlier one: values equal by value appear once (1 and 1.0    *)
(* are one value), a not-a-number float, which equals nothing, once per     *)
(* object.  No two elements of the result are the same object or equal,     *)
(* every element of the argument is matched by one of the result, the       *)
(* argument is left as it was, and unique_values applied to the result      *)
(* returns the same elements.                                               *)
C11_UniqueByMembership ==
    op = "unique_values" =>
        /\ result.ok
        /\ result.out = ElementsAt(arg, FirstByMembership(arg), 1)
        /\ \A k, l \in DOMAIN result.out :
              k # l => ~SameOrEqual(result.out[k], result.out[l])
        /\ \A i \in DOMAIN arg :
              \E k \in DOMAIN result.out : SameOrEqual(result.out[k], arg[i])
        /\ UniqueValues(result.out) = result
        /\ input = arg

(* A list that holds 1, then the same not-a-number object twice, or holds  *)
(* 1 and later 1.0: the repeated element is dropped, the first ones kept.   *)
C11_Witness ==
    /\ op = "unique_values"
    /\ Len(arg) = 3
    /\ arg[1] = IntV(1)
    /\ arg[2].t = "nan"
    /\ arg[3] = arg[2]
    /\ result.out = <<arg[1], arg[2]>>

-----------------------------------------------------------------------------
(* Properties of every call *)

(* C2 (as stated): a call of a library function writes no state that       *)
(* outlives it: the process-wide generator and the caller's object are      *)
(* after the call as they were before it.                                   *)
C2_NoStateWritten ==
    [][op' \in LibraryOps => (rng' = rng /\ input' = input)]_vars

-----------------------------------------------------------------------------
(* Properties of shuffle_list *)

Count(x, e) == Cardinality({i \in DOMAIN x : x[i] = e})
Elems(x) == {x[i] : i \in DOMAIN x}
IsPermutation(x, y) ==
    /\ Len(x) = Len(y)
    /\ \A e \in Elems(x) \cup Elems(y) : Count(x, e) = Count(y, e)

ShuffleCalled == op = "shuffle_list"

(* The kept call and the last call are shuffle_list on the same list. *)
TwoShuffles == ShuffleCalled /\ kept.made /\ kept.values = arg

(* C1 (as stated): a call of shuffle_list that omits seed seeds the         *)
(* generator from a non-reproducible source, as a call with seed=None does. *)
C1_OmittedSeedNotReproducible ==
    (ShuffleCalled /\ param.given = SeedOmitted) => param.used = SeedNone

(* C1 (amended): a call of shuffle_list that omits seed uses the default    *)
(* seed 42: it returns what shuffling from the state of seed 42 returns,    *)
(* and two such calls on the same list return the same order.  Only a call  *)
(* that passes seed=None is seeded from a non-reproducible source.          *)
C1_OmittedSeedIsDefault ==
    /\ (ShuffleCalled /\ param.given = SeedOmitted) =>
          /\ param.used = SeedInt(DefaultSeed)
          /\ result.out = RandomShuffle(arg, SeedState(DefaultSeed)).x
    /\ (TwoShuffles /\ param.given = SeedOmitted /\ kept.seed = SeedOmitted) =>
          result.out = kept.out
    /\ (ShuffleCalled /\ param.used = SeedNone) => param.given = SeedNone

(* Two calls that omit seed, on the same list of two or more elements,      *)
(* which the shuffle reordered.                                             *)
C1_Witness ==
    /\ TwoShuffles
    /\ param.given = SeedOmitted
    /\ kept.seed = SeedOmitted
    /\ Len(arg) >= 2
    /\ result.out # arg

(* C8: two calls of shuffle_list with the same explicit seed and the same   *)
(* list return the same sequence, whatever was called in between.           *)
C8_SameSeedSameOrder ==
    (TwoShuffles /\ param.given.k = "int" /\ kept.seed = param.given) =>
        result.out = kept.out

(* Two calls with the same explicit seed on the same list of three or more  *)
(* elements, which the shuffle reordered.                                   *)
C8_Witness ==
    /\ TwoShuffles
    /\ param.given.k = "int"
    /\ kept.seed = param.given
    /\ Len(arg) >= 3
    /\ result.out # arg

(* C9: shuffle_list returns a permutation of its argument (same length,     *)
(* same elements with the same multiplicities) and leaves the caller's list *)
(* as it was.                                                               *)
C9_PermutationInputKept ==
    ShuffleCalled =>
        /\ result.ok
        /\ IsPermutation(result.out, arg)
        /\ input = arg

(* A list with a repeated element whose order the shuffle changed. *)
C9_Witness ==
    /\ ShuffleCalled
    /\ Len(arg) >= 3
    /\ Cardinality(Elems(arg)) < Len(arg)
    /\ result.out # arg

====
